---- MODULE Spec2Model ----
(***************************************************************************)
(* NFC bridge: the session manager (queue, worker loop, reaper, shutdown)  *)
(* of server/src/services/session-manager.ts together with the NDEF URI    *)
(* encoder of server/src/utils/ndef.ts it calls.                           *)
(*                                                                         *)
(* JavaScript runs one event-loop turn at a time: an async function runs   *)
(* synchronously up to its first pending await.  Every action below is one *)
(* such turn: createSession includes the synchronous start of processQueue *)
(* and processSession, and the return of a controller operation includes   *)
(* everything the worker does until it awaits the next one.                *)
(***************************************************************************)
EXTENDS Integers, Sequences, FiniteSets, TLC

\* ------------------------------------------------------------------ bounds
\* number of createSession calls explored
MaxSessions == 3
\* last value of the discrete wall clock
MaxTime == 2

\* last value of the clock when controller calls are held to their timeouts
MaxTimedTime == 3

\* longest remainder appended to a table prefix in the sampled urls
MaxTail == 2

\* sessionTimeoutMs, in clock ticks (one tick is one session timeout)
SessionTimeout == 1

\* taggingTimeoutMs, in clock ticks: the timeout processSession gives to
\* initAsTarget and to waitForTag
TaggingTimeoutTicks == 1

\* ------------------------------------------------------------ NDEF encoder
\* strings are sequences of UTF-8 bytes
\* 'https://abc.com'
TestUrl == <<104, 116, 116, 112, 115, 58, 47, 47, 97, 98, 99, 46, 99, 111, 109>>
\* 'https://example.com/r/abc'
ExampleUrl == <<104, 116, 116, 112, 115, 58, 47, 47, 101, 120, 97, 109, 112, 108,
                101, 46, 99, 111, 109, 47, 114, 47, 97, 98, 99>>
\* the request carried no receiptUrl
NoUrl == <<>>

\* the prefix table of encode, in the insertion order Object.entries yields
prefixes ==
    <<
       [prefix |-> <<104, 116, 116, 112, 58, 47, 47, 119, 119, 119, 46>>, code |-> 1],  \* 'http://www.'
       [prefix |-> <<104, 116, 116, 112, 115, 58, 47, 47, 119, 119, 119, 46>>, code |-> 2],  \* 'https://www.'
       [prefix |-> <<104, 116, 116, 112, 58, 47, 47>>, code |-> 3],  \* 'http://'
       [prefix |-> <<104, 116, 116, 112, 115, 58, 47, 47>>, code |-> 4],  \* 'https://'
       [prefix |-> <<116, 101, 108, 58>>, code |-> 5],  \* 'tel:'
       [prefix |-> <<109, 97, 105, 108, 116, 111, 58>>, code |-> 6],  \* 'mailto:'
       [prefix |-> <<102, 116, 112, 58, 47, 47, 97, 110, 111, 110, 121, 109, 111, 117, 115, 58, 97, 110, 111, 110, 121, 109, 111, 117, 115, 64>>, code |-> 7],  \* 'ftp://anonymous:anonymous@'
       [prefix |-> <<102, 116, 112, 58, 47, 47, 102, 116, 112, 46>>, code |-> 8],  \* 'ftp://ftp.'
       [prefix |-> <<102, 116, 112, 115, 58, 47, 47>>, code |-> 9],  \* 'ftps://'
       [prefix |-> <<115, 102, 116, 112, 58, 47, 47>>, code |-> 10],  \* 'sftp://'
       [prefix |-> <<115, 109, 98, 58, 47, 47>>, code |-> 11],  \* 'smb://'
       [prefix |-> <<110, 102, 115, 58, 47, 47>>, code |-> 12],  \* 'nfs://'
       [prefix |-> <<102, 116, 112, 58, 47, 47>>, code |-> 13],  \* 'ftp://'
       [prefix |-> <<100, 97, 118, 58, 47, 47>>, code |-> 14],  \* 'dav://'
       [prefix |-> <<110, 101, 119, 115, 58>>, code |-> 15],  \* 'news:'
       [prefix |-> <<116, 101, 108, 110, 101, 116, 58, 47, 47>>, code |-> 16],  \* 'telnet://'
       [prefix |-> <<105, 109, 97, 112, 58>>, code |-> 17],  \* 'imap:'
       [prefix |-> <<114, 116, 115, 112, 58, 47, 47>>, code |-> 18],  \* 'rtsp://'
       [prefix |-> <<117, 114, 110, 58>>, code |-> 19],  \* 'urn:'
       [prefix |-> <<112, 111, 112, 58>>, code |-> 20],  \* 'pop:'
       [prefix |-> <<115, 105, 112, 58>>, code |-> 21],  \* 'sip:'
       [prefix |-> <<115, 105, 112, 115, 58>>, code |-> 22],  \* 'sips:'
       [prefix |-> <<116, 102, 116, 112, 58>>, code |-> 23],  \* 'tftp:'
       [prefix |-> <<98, 116, 115, 112, 112, 58, 47, 47>>, code |-> 24],  \* 'btspp://'
       [prefix |-> <<98, 116, 108, 50, 99, 97, 112, 58, 47, 47>>, code |-> 25],  \* 'btl2cap://'
       [prefix |-> <<98, 116, 103, 111, 101, 112, 58, 47, 47>>, code |-> 26],  \* 'btgoep://'
       [prefix |-> <<116, 99, 112, 111, 98, 101, 120, 58, 47, 47>>, code |-> 27],  \* 'tcpobex://'
       [prefix |-> <<105, 114, 100, 97, 111, 98, 101, 120, 58, 47, 47>>, code |-> 28],  \* 'irdaobex://'
       [prefix |-> <<102, 105, 108, 101, 58, 47, 47>>, code |-> 29],  \* 'file://'
       [prefix |-> <<117, 114, 110, 58, 101, 112, 99, 58, 105, 100, 58>>, code |-> 30],  \* 'urn:epc:id:'
       [prefix |-> <<117, 114, 110, 58, 101, 112, 99, 58, 116, 97, 103, 58>>, code |-> 31],  \* 'urn:epc:tag:'
       [prefix |-> <<117, 114, 110, 58, 101, 112, 99, 58, 112, 97, 116, 58>>, code |-> 32],  \* 'urn:epc:pat:'
       [prefix |-> <<117, 114, 110, 58, 101, 112, 99, 58, 114, 97, 119, 58>>, code |-> 33],  \* 'urn:epc:raw:'
       [prefix |-> <<117, 114, 110, 58, 101, 112, 99, 58>>, code |-> 34],  \* 'urn:epc:'
       [prefix |-> <<117, 114, 110, 58, 110, 102, 99, 58>>, code |-> 35]   \* 'urn:nfc:'
    >>

\* String.prototype.startsWith
startsWith(url, prefix) ==
    /\ Len(prefix) <= Len(url)
    /\ \A i \in 1..Len(prefix) : url[i] = prefix[i]

\* String.prototype.substring(n): the string without its first n bytes
substring(url, n) == SubSeq(url, n + 1, Len(url))

\* index of the first table entry the url starts with, 0 when there is none
\* (the for loop of encode breaks at the first match)
firstMatch(url) ==
    LET hits == {i \in 1..Len(prefixes) : startsWith(url, prefixes[i].prefix)}
    IN  IF hits = {} THEN 0 ELSE CHOOSE i \in hits : \A j \in hits : i <= j

\* encode with the payload length taken without the prefix-code byte
encodeShortLength(url) ==
    LET m                == firstMatch(url)
        prefixCode       == IF m = 0 THEN 0 ELSE prefixes[m].code
        urlWithoutPrefix == IF m = 0 THEN url
                            ELSE substring(url, Len(prefixes[m].prefix))
        payloadLength    == Len(urlWithoutPrefix)
    IN  <<209, 1, payloadLength % 256, 85, prefixCode>> \o urlWithoutPrefix

\* NdefUrlRecord.encode: flags, type length, payload length (one byte of a
\* Buffer, so stored modulo 256), 'U', prefix code, url without its prefix
encode(url) ==
    LET m                == firstMatch(url)
        prefixCode       == IF m = 0 THEN 0 ELSE prefixes[m].code
        urlWithoutPrefix == IF m = 0 THEN url
                            ELSE substring(url, Len(prefixes[m].prefix))
        payloadLength    == 1 + Len(urlWithoutPrefix)
    IN  <<209, 1, payloadLength % 256, 85, prefixCode>> \o urlWithoutPrefix

\* what decode returns for a buffer it rejects (null)
Null == <<-1>>

\* the prefix table of decode
prefixMap ==
    [code \in 0..4 |->
        CASE code = 0 -> <<>>
          [] code = 1 -> <<104, 116, 116, 112, 58, 47, 47, 119, 119, 119, 46>>
          [] code = 2 -> <<104, 116, 116, 112, 115, 58, 47, 47, 119, 119, 119, 46>>
          [] code = 3 -> <<104, 116, 116, 112, 58, 47, 47>>
          [] code = 4 -> <<104, 116, 116, 112, 115, 58, 47, 47>>]

\* NdefUrlRecord.decode
decode(buffer) ==
    IF Len(buffer) < 3 THEN Null
    ELSE LET typeLength    == buffer[2]
             payloadLength == buffer[3]
         IN  IF Len(buffer) < 3 + typeLength + payloadLength THEN Null
             ELSE IF SubSeq(buffer, 4, 3 + typeLength) # <<85>> THEN Null
             ELSE LET payload == SubSeq(buffer, 4 + typeLength,
                                        3 + typeLength + payloadLength)
                      urlPart == IF payload = <<>> THEN <<>> ELSE Tail(payload)
                      prefix  == IF payload # <<>> /\ payload[1] \in DOMAIN prefixMap
                                 THEN prefixMap[payload[1]]
                                 ELSE <<>>
                  IN  prefix \o urlPart

\* ------------------------------------------------------------ sampled urls
\* 'tel:+821012345678'
TelUrl == <<116, 101, 108, 58, 43, 56, 50, 49, 48, 49, 50, 51, 52, 53, 54, 55, 56>>
\* 'https://' followed by n times 'a'
HttpsUrl(n) == <<104, 116, 116, 112, 115, 58, 47, 47>> \o [i \in 1..n |-> 97]
\* a url of 280 bytes
LongUrl == HttpsUrl(272)
\* n times 'x'
Xs(n) == [i \in 1..n |-> 120]

\* every table prefix followed by a short remainder, urls no prefix matches,
\* the urls of the examples, and urls around the one-byte payload limit
UrlSamples ==
    {prefixes[i].prefix \o Xs(n) : i \in 1..Len(prefixes), n \in 1..MaxTail}
        \cup {Xs(n) : n \in 1..MaxTail}
        \cup {TestUrl, ExampleUrl, TelUrl, LongUrl, HttpsUrl(254), HttpsUrl(255)}

\* --------------------------------------------------------- session manager
VARIABLES
    sessions,        \* Map sessionId -> NfcSession (a function on the ids in the map);
                     \* orderId, createdAt and completedAt are written but never
                     \* read by the manager and are left out; history is not a
                     \* field of the program: it lists the values status was given
    queue,           \* string[] of session ids waiting for the worker
    isProcessing,    \* the worker-loop flag
    workers,         \* suspended processQueue invocations: the id of the session
                     \* each one is processing -> the controller call it awaits
                     \* (pc), the message given to initAsTarget (ndef) and the
                     \* time the awaited call was made (since)
    now,             \* wall clock read by new Date()
    nextId,          \* the next identifier uuidv4 hands out (all distinct)
    lastCall,        \* the last createSession call: its request and what it returned
    dequeued,        \* history: the ids shifted off the queue, in order
    reaped,          \* history: what cleanupExpiredSessions deleted, and when
    shutdownCalled,  \* history: shutdown() has been called
    codec,           \* a caller of NdefUrlRecord: the url it passes to encode, the
                     \* record returned and what decode makes of it
    pn532,           \* one sendCommand call of PN532Service: the command, the
                     \* frame written, the receive buffer, ackReceived, the
                     \* chunks the chip still has to deliver and those read,
                     \* whether its catch block ran (threw); and the public
                     \* call it belongs to (op), i2cBus open or null,
                     \* isInitialized, the value the public call returned,
                     \* what the chip will deliver for the next commands,
                     \* the number of frames written
    api              \* the Lambda function: its API_KEY, the 'latest' row of the
                     \* table, the GET /r invocations between their read and
                     \* their write, the route and headers of the last request
                     \* answered, the response to it and the clock

vars == <<sessions, queue, isProcessing, workers, now, nextId, lastCall,
          dequeued, reaped, shutdownCalled, codec, pn532, api>>

Terminal == {"completed", "expired", "failed"}
Status   == {"pending", "ready", "tagging"} \cup Terminal

NoError      == ""
InitFailed   == "Failed to initialize PN532 as target"
TaggingTimeout == "Tagging timeout"
Thrown       == "controller error"

NoSession == 0
NoCall    == [sessionId |-> NoSession, receiptUrl |-> NoUrl, status |-> "none"]
Nobody    == [i \in {} |-> 0]
\* nobody is using the encoder on its own
NoCodec   == [step |-> "idle", url |-> <<>>, record |-> <<>>, decoded |-> <<>>]

\* no command is being sent
NoCommand == [pc |-> "idle", command |-> <<>>, frame |-> <<>>, chunks |-> <<>>,
              reads |-> <<>>, buffer |-> <<>>, ackReceived |-> FALSE,
              response |-> <<>>, threw |-> FALSE,
              op |-> "none", i2cBus |-> FALSE, isInitialized |-> FALSE,
              result |-> "none", scripts |-> <<>>, written |-> 0,
              calls |-> 0, polls |-> 0]
\* a value that is undefined in JavaScript, an attribute an item lacks
Undefined  == "undefined"
NoItem     == [pk |-> Undefined, orderId |-> Undefined, receiptUrl |-> Undefined,
               status |-> Undefined, scannedAt |-> Undefined,
               updatedAt |-> Undefined, ttl |-> Undefined]
NoResponse == [statusCode |-> 0]
\* the function is not deployed
NoApi == [apiKey |-> Undefined, item |-> NoItem, reading |-> <<>>,
          request |-> [route |-> "none", headers |-> <<>>],
          response |-> NoResponse, time |-> 0]

\* what a request may carry as receiptUrl
RequestUrls == {NoUrl, ExampleUrl}

\* how a call on the controller interface may end
BoolOutcomes == {"true", "false", "throw"}
VoidOutcomes == {"return", "throw"}

\* updateSessionStatus: a no-op for an id that is not in the map
updateSessionStatus(s, sessionId, status, error) ==
    IF sessionId \in DOMAIN s
    THEN [s EXCEPT ![sessionId].status  = status,
                   ![sessionId].error   = IF error # NoError THEN error ELSE @,
                   ![sessionId].history = Append(@, status)]
    ELSE s

\* the receipt url createSession stores for a request
receiptUrlOf(requestUrl) == TestUrl

\* NdefUrlRecord.encode(receiptUrl) as processSession computes it, for every
\* receiptUrl a session can hold (evaluated once)
ndefMessage == [url \in {receiptUrlOf(u) : u \in RequestUrls} |-> encode(url)]

\* putting the id at the head of the queue instead
unshift(q, sessionId) == <<sessionId>> \o q

\* this.queue.push
push(q, sessionId) == Append(q, sessionId)

\* the loop head without the check of expiresAt
RECURSIVE shiftIgnoringExpiry(_, _)
shiftIgnoringExpiry(q, s) ==
    IF q = <<>>
    THEN [queue |-> q, sessions |-> s, next |-> NoSession, shifted |-> <<>>]
    ELSE LET sessionId == Head(q)
         IN  IF sessionId \notin DOMAIN s
             THEN LET r == shiftIgnoringExpiry(Tail(q), s)
                  IN  [r EXCEPT !.shifted = <<sessionId>> \o @]
             ELSE [queue |-> Tail(q), sessions |-> s, next |-> sessionId,
                   shifted |-> <<sessionId>>]

\* the head of the while loop of processQueue: shift ids off the queue,
\* skipping unknown ones and marking expired ones, until one is to be
\* processed (next) or the queue is empty (next = NoSession)
RECURSIVE shiftUntilProcessable(_, _)
shiftUntilProcessable(q, s) ==
    IF q = <<>>
    THEN [queue |-> q, sessions |-> s, next |-> NoSession, shifted |-> <<>>]
    ELSE LET sessionId == Head(q)
             skip(s1)  == LET r == shiftUntilProcessable(Tail(q), s1)
                          IN  [r EXCEPT !.shifted = <<sessionId>> \o @]
         IN  IF sessionId \notin DOMAIN s
             THEN skip(s)
             ELSE IF now > s[sessionId].expiresAt
             THEN skip(updateSessionStatus(s, sessionId, "expired", NoError))
             ELSE [queue |-> Tail(q), sessions |-> s, next |-> sessionId,
                   shifted |-> <<sessionId>>]

\* the loop reading queue[0] without shifting it off the queue
workerLoopWithoutShift(q, s, busy) ==
    LET r == shiftUntilProcessable(q, s)
    IN  IF r.next = NoSession
        THEN [queue |-> r.queue, sessions |-> r.sessions, isProcessing |-> FALSE,
              started |-> Nobody, shifted |-> r.shifted]
        ELSE [queue |-> <<r.next>> \o r.queue,
              sessions |-> updateSessionStatus(r.sessions, r.next, "ready", NoError),
              isProcessing |-> busy,
              started |-> (r.next :> [pc |-> "initAsTarget",
                                      ndef |-> ndefMessage[r.sessions[r.next].receiptUrl],
                                      since |-> now]),
              shifted |-> r.shifted]

\* the while loop of processQueue from its head up to the first await:
\* either the queue drains and the finally block clears isProcessing, or
\* processSession marks a session ready, encodes its url and calls
\* initAsTarget.  busy is the value isProcessing has if the loop goes on.
workerLoop(q, s, busy) ==
    LET r == shiftUntilProcessable(q, s)
    IN  IF r.next = NoSession
        THEN [queue |-> r.queue, sessions |-> r.sessions, isProcessing |-> FALSE,
              started |-> Nobody, shifted |-> r.shifted]
        ELSE [queue |-> r.queue,
              sessions |-> updateSessionStatus(r.sessions, r.next, "ready", NoError),
              isProcessing |-> busy,
              started |-> (r.next :> [pc |-> "initAsTarget",
                                      ndef |-> ndefMessage[r.sessions[r.next].receiptUrl],
                                      since |-> now]),
              shifted |-> r.shifted]

\* processQueue as createSession calls it
processQueue(q, s) ==
    IF isProcessing \/ q = <<>>
    THEN [queue |-> q, sessions |-> s, isProcessing |-> isProcessing,
          started |-> Nobody, shifted |-> <<>>]
    ELSE workerLoop(q, s, TRUE)

Remove(f, ids) == [i \in DOMAIN f \ ids |-> f[i]]

Init ==
    /\ sessions = Nobody
    /\ queue = <<>>
    /\ isProcessing = FALSE
    /\ workers = Nobody
    /\ now = 0
    /\ nextId = 1
    /\ lastCall = NoCall
    /\ dequeued = <<>>
    /\ reaped = {}
    /\ shutdownCalled = FALSE
    /\ codec = NoCodec
    /\ pn532 = NoCommand
    /\ api = NoApi

\* createSession({orderId, receiptUrl}) and the 201 response built from it
createSession(requestUrl) ==
    /\ nextId <= MaxSessions
    /\ LET sessionId == nextId
           session   == [status |-> "pending",
                         receiptUrl |-> receiptUrlOf(requestUrl),
                         expiresAt |-> now + SessionTimeout,
                         error |-> NoError,
                         history |-> <<"pending">>]
           r == processQueue(push(queue, sessionId), sessions @@ (sessionId :> session))
       IN  /\ sessions' = r.sessions
           /\ queue' = r.queue
           /\ isProcessing' = r.isProcessing
           /\ workers' = workers @@ r.started
           /\ dequeued' = dequeued \o r.shifted
           /\ lastCall' = [sessionId |-> sessionId, receiptUrl |-> requestUrl,
                           status |-> r.sessions[sessionId].status]
    /\ nextId' = nextId + 1
    /\ UNCHANGED <<now, reaped, shutdownCalled, codec, pn532, api>>

\* processSession returns (normally, or after its catch block): the worker
\* is back in the while loop of processQueue
sessionDone(sessionId, s) ==
    LET r == workerLoop(queue, s, isProcessing)
    IN  /\ sessions' = r.sessions
        /\ queue' = r.queue
        /\ isProcessing' = r.isProcessing
        /\ workers' = Remove(workers, {sessionId}) @@ r.started
        /\ dequeued' = dequeued \o r.shifted

\* a catch block that marks the session failed and leaves the worker
\* without reinitializing and without reaching the finally of processQueue
sessionFailedAndStop(sessionId, error) ==
    /\ sessions' = updateSessionStatus(sessions, sessionId, "failed", error)
    /\ workers' = Remove(workers, {sessionId})
    /\ UNCHANGED <<queue, isProcessing, dequeued>>

\* the catch block of processSession: mark failed, call reinitialize
sessionFailed(sessionId, error) ==
    /\ sessions' = updateSessionStatus(sessions, sessionId, "failed", error)
    /\ workers' = [workers EXCEPT ![sessionId].pc = "reinitialize",
                                  ![sessionId].since = now]
    /\ UNCHANGED <<queue, isProcessing, dequeued>>

\* initAsTarget settling without the session being marked tagging
initAsTargetReturnsUnmarked(sessionId, outcome) ==
    /\ sessionId \in DOMAIN workers
    /\ workers[sessionId].pc = "initAsTarget"
    /\ CASE outcome = "true" ->
              /\ workers' = [workers EXCEPT ![sessionId].pc = "waitForTag",
                                            ![sessionId].since = now]
              /\ UNCHANGED <<sessions, queue, isProcessing, dequeued>>
         [] outcome = "false" -> sessionFailed(sessionId, InitFailed)
         [] outcome = "throw" -> sessionFailed(sessionId, Thrown)
    /\ UNCHANGED <<now, nextId, lastCall, reaped, shutdownCalled, codec, pn532, api>>

\* await this.pn532.initAsTarget(...) settles
initAsTargetReturns(sessionId, outcome) ==
    /\ sessionId \in DOMAIN workers
    /\ workers[sessionId].pc = "initAsTarget"
    /\ CASE outcome = "true" ->
              /\ sessions' = updateSessionStatus(sessions, sessionId, "tagging", NoError)
              /\ workers' = [workers EXCEPT ![sessionId].pc = "waitForTag",
                                            ![sessionId].since = now]
              /\ UNCHANGED <<queue, isProcessing, dequeued>>
         [] outcome = "false" -> sessionFailed(sessionId, InitFailed)
         [] outcome = "throw" -> sessionFailed(sessionId, Thrown)
    /\ UNCHANGED <<now, nextId, lastCall, reaped, shutdownCalled, codec, pn532, api>>

\* waitForTag settling with a timeout handled like an error
waitForTagReturnsFailing(sessionId, outcome) ==
    /\ sessionId \in DOMAIN workers
    /\ workers[sessionId].pc = "waitForTag"
    /\ CASE outcome = "true" ->
              sessionDone(sessionId,
                  updateSessionStatus(sessions, sessionId, "completed", NoError))
         [] outcome = "false" -> sessionFailed(sessionId, TaggingTimeout)
         [] outcome = "throw" -> sessionFailed(sessionId, Thrown)
    /\ UNCHANGED <<now, nextId, lastCall, reaped, shutdownCalled, codec, pn532, api>>

\* await this.pn532.waitForTag(...) settles
waitForTagReturns(sessionId, outcome) ==
    /\ sessionId \in DOMAIN workers
    /\ workers[sessionId].pc = "waitForTag"
    /\ CASE outcome = "true" ->
              sessionDone(sessionId,
                  updateSessionStatus(sessions, sessionId, "completed", NoError))
         [] outcome = "false" ->
              sessionDone(sessionId,
                  updateSessionStatus(sessions, sessionId, "expired", TaggingTimeout))
         [] outcome = "throw" -> sessionFailed(sessionId, Thrown)
    /\ UNCHANGED <<now, nextId, lastCall, reaped, shutdownCalled, codec, pn532, api>>

\* await this.pn532.reinitialize() settles; a rejection leaves processSession
\* and ends the loop in the catch and finally blocks of processQueue
reinitializeReturns(sessionId, outcome) ==
    /\ sessionId \in DOMAIN workers
    /\ workers[sessionId].pc = "reinitialize"
    /\ CASE outcome = "return" -> sessionDone(sessionId, sessions)
         [] outcome = "throw" ->
              /\ isProcessing' = FALSE
              /\ workers' = Remove(workers, {sessionId})
              /\ UNCHANGED <<sessions, queue, dequeued>>
    /\ UNCHANGED <<now, nextId, lastCall, reaped, shutdownCalled, codec, pn532, api>>

\* deleting on the expiry time alone
reapAnyStatus(session) == now > session.expiresAt

\* the condition under which cleanupExpiredSessions deletes a session
reapable(session) ==
    /\ now > session.expiresAt
    /\ session.status \in Terminal

\* the reaper, run by setInterval
cleanupExpiredSessions ==
    LET victims == {id \in DOMAIN sessions : reapable(sessions[id])}
    IN  /\ sessions' = Remove(sessions, victims)
        /\ reaped' = reaped \cup
               {[sessionId |-> id, status |-> sessions[id].status,
                 expiresAt |-> sessions[id].expiresAt, at |-> now] : id \in victims}
        /\ UNCHANGED <<queue, isProcessing, workers, now, nextId, lastCall,
                       dequeued, shutdownCalled, codec, pn532, api>>

shutdown ==
    /\ sessions' = Nobody
    /\ queue' = <<>>
    /\ isProcessing' = FALSE
    /\ shutdownCalled' = TRUE
    /\ UNCHANGED <<workers, now, nextId, lastCall, dequeued, reaped, codec, pn532, api>>

\* getStats
getStats ==
    LET count(status) == Cardinality({id \in DOMAIN sessions :
                                         sessions[id].status = status})
    IN  [total     |-> Cardinality(DOMAIN sessions),
         pending   |-> count("pending"),
         ready     |-> count("ready"),
         tagging   |-> count("tagging"),
         completed |-> count("completed"),
         expired   |-> count("expired"),
         failed    |-> count("failed")]

\* the wall clock advances
Tick ==
    /\ now < MaxTime
    /\ now' = now + 1
    /\ UNCHANGED <<sessions, queue, isProcessing, workers, nextId, lastCall,
                   dequeued, reaped, shutdownCalled, codec, pn532, api>>

Ids == 1..MaxSessions

Create      == \E u \in RequestUrls : createSession(u)
InitReturn  == \E id \in Ids, o \in BoolOutcomes : initAsTargetReturns(id, o)
WaitReturn  == \E id \in Ids, o \in BoolOutcomes : waitForTagReturns(id, o)
ReinitReturn == \E id \in Ids, o \in VoidOutcomes : reinitializeReturns(id, o)

Next ==
    \/ Create
    \/ InitReturn
    \/ WaitReturn
    \/ ReinitReturn
    \/ cleanupExpiredSessions
    \/ shutdown
    \/ Tick

Spec == Init /\ [][Next]_vars

\* the same program when nobody calls shutdown, with every controller call
\* settling eventually
NextNoShutdown ==
    \/ Create
    \/ InitReturn
    \/ WaitReturn
    \/ ReinitReturn
    \/ cleanupExpiredSessions
    \/ Tick

LiveSpec ==
    /\ Init
    /\ [][NextNoShutdown]_vars
    /\ WF_vars(InitReturn)
    /\ WF_vars(WaitReturn)
    /\ WF_vars(ReinitReturn)

\* ------------------------- the manager on the controllers of the repository
\* PN532Service and MockPN532Service catch their own errors: initAsTarget
\* and waitForTag resolve true or false, reinitialize resolves
RepoInitReturn   == \E id \in Ids, o \in {"true", "false"} : initAsTargetReturns(id, o)
RepoWaitReturn   == \E id \in Ids, o \in {"true", "false"} : waitForTagReturns(id, o)
RepoReinitReturn == \E id \in Ids : reinitializeReturns(id, "return")

RepoNext ==
    \/ Create
    \/ RepoInitReturn
    \/ RepoWaitReturn
    \/ RepoReinitReturn
    \/ cleanupExpiredSessions
    \/ Tick

RepoLiveSpec ==
    /\ Init
    /\ [][RepoNext]_vars
    /\ WF_vars(RepoInitReturn)
    /\ WF_vars(RepoWaitReturn)
    /\ WF_vars(RepoReinitReturn)

\* the clock when initAsTarget and waitForTag settle within the timeout they
\* were given and reinitialize takes no time: it does not pass the deadline
\* of a call that is still outstanding
TimedTick ==
    /\ now < MaxTimedTime
    /\ \A id \in DOMAIN workers :
          /\ workers[id].pc # "reinitialize"
          /\ now < workers[id].since + TaggingTimeoutTicks
    /\ now' = now + 1
    /\ UNCHANGED <<sessions, queue, isProcessing, workers, nextId, lastCall,
                   dequeued, reaped, shutdownCalled, codec, pn532, api>>

TimedNext ==
    \/ Create
    \/ RepoInitReturn
    \/ RepoWaitReturn
    \/ RepoReinitReturn
    \/ cleanupExpiredSessions
    \/ TimedTick

TimedSpec == Init /\ [][TimedNext]_vars

\* ------------------------------------- the manager on MockPN532Service
\* initAsTarget and waitForTag of the mock resolve true, always
MockInitReturn == \E id \in Ids : initAsTargetReturns(id, "true")
MockWaitReturn == \E id \in Ids : waitForTagReturns(id, "true")

MockNext ==
    \/ Create
    \/ MockInitReturn
    \/ MockWaitReturn
    \/ cleanupExpiredSessions
    \/ Tick

MockSpec == Init /\ [][MockNext]_vars

\* --------------------------- requests that may carry a url of 280 bytes
CreateAnyUrl == \E u \in RequestUrls \cup {LongUrl} : createSession(u)

LongUrlNext ==
    \/ CreateAnyUrl
    \/ InitReturn
    \/ WaitReturn
    \/ ReinitReturn
    \/ cleanupExpiredSessions
    \/ shutdown
    \/ Tick

LongUrlSpec == Init /\ [][LongUrlNext]_vars

\* ---------------------------------------------- the encoder on its own
managerVars == <<sessions, queue, isProcessing, workers, now, nextId, lastCall,
                 dequeued, reaped, shutdownCalled>>

\* a caller holds one of the sampled urls
CodecInit ==
    /\ sessions = Nobody
    /\ queue = <<>>
    /\ isProcessing = FALSE
    /\ workers = Nobody
    /\ now = 0
    /\ nextId = 1
    /\ lastCall = NoCall
    /\ dequeued = <<>>
    /\ reaped = {}
    /\ shutdownCalled = FALSE
    /\ codec \in {[step |-> "url", url |-> u, record |-> <<>>, decoded |-> <<>>] :
                     u \in UrlSamples}
    /\ pn532 = NoCommand
    /\ api = NoApi

\* record = NdefUrlRecord.encode(url)
callEncode ==
    /\ codec.step = "url"
    /\ codec' = [codec EXCEPT !.step = "encoded", !.record = encode(codec.url)]
    /\ UNCHANGED <<managerVars, pn532, api>>

\* decoded = NdefUrlRecord.decode(record)
callDecode ==
    /\ codec.step = "encoded"
    /\ codec' = [codec EXCEPT !.step = "decoded", !.decoded = decode(codec.record)]
    /\ UNCHANGED <<managerVars, pn532, api>>

CodecNext ==
    \/ callEncode
    \/ callDecode

CodecSpec == CodecInit /\ [][CodecNext]_vars

\* ------------------------------------------- PN532Service: one command
PREAMBLE      == 0
START_CODE1   == 0
START_CODE2   == 255
POSTAMBLE     == 0
HOST_TO_PN532 == 212
PN532_TO_HOST == 213
ACK_SEQ       == <<0, 0, 255, 0, 255, 0>>

CMD_GET_FIRMWARE_VERSION == 2
CMD_SAM_CONFIGURATION    == 20
CMD_TG_INIT_AS_TARGET    == 140
CMD_TG_GET_DATA          == 134

\* data.reduce((sum, byte) => sum + byte, 0)
RECURSIVE SumOf(_, _, _)
SumOf(data, from, to) ==
    IF from > to THEN 0
    ELSE IF from = to THEN data[from]
    ELSE LET mid == (from + to) \div 2
         IN  SumOf(data, from, mid) + SumOf(data, mid + 1, to)
Sum(data) == SumOf(data, 1, Len(data))

\* (~n + 1) & 0xff
negate(n) == (256 - (n % 256)) % 256

\* Buffer.alloc(n, 0)
zeros(n) == [i \in 1..n |-> 0]

\* buildFrame: Buffer.from stores length modulo 256
buildFrame(data) ==
    LET frameData      == <<HOST_TO_PN532>> \o data
        length         == Len(frameData)
        lengthChecksum == negate(length)
        dataChecksum   == negate(Sum(frameData))
    IN  <<PREAMBLE, START_CODE1, START_CODE2, length % 256, lengthChecksum>>
            \o frameData \o <<dataChecksum, POSTAMBLE>>

\* the command initAsTarget builds around an NDEF message
tgInitAsTarget(message) ==
    <<CMD_TG_INIT_AS_TARGET, 0>> \o <<4, 0>> \o <<18, 52, 86>> \o <<32>>
        \o zeros(18) \o zeros(10) \o <<Len(message) % 256>> \o message \o <<0>>

\* the commands of getFirmwareVersion, configureSAM and waitForTag, and
\* those of initAsTarget for the message of the test url and for messages
\* of 216 and 217 bytes (commands of 254 and 255 bytes)
Commands ==
    {<<CMD_GET_FIRMWARE_VERSION>>, <<CMD_SAM_CONFIGURATION, 1, 20, 1>>,
     <<CMD_TG_GET_DATA>>}
        \cup {tgInitAsTarget(encode(u)) : u \in {TestUrl, HttpsUrl(211), HttpsUrl(212)}}

\* Buffer.slice(start): indices count from 0
slice(buffer, start) == SubSeq(buffer, start + 1, Len(buffer))

\* Buffer.indexOf(pattern)
indexOf(buffer, pattern) ==
    LET hits == {i \in 0..(Len(buffer) - Len(pattern)) :
                    SubSeq(buffer, i + 1, i + Len(pattern)) = pattern}
    IN  IF hits = {} THEN -1 ELSE CHOOSE i \in hits : \A j \in hits : i <= j

\* the scan of extractResponseFrame for 00 00 FF: the first offset below
\* length - 2 at which it starts, or -1
findHeader(buffer) == indexOf(buffer, <<PREAMBLE, START_CODE1, START_CODE2>>)

\* discarding the whole buffer when it holds no header
keepNothing(buffer) == <<>>

\* this.buffer.slice(this.buffer.length - 2) when the buffer has more than
\* two bytes
keepTail(buffer) ==
    IF Len(buffer) > 2 THEN slice(buffer, Len(buffer) - 2) ELSE buffer

\* extractResponseFrame on this.buffer: the buffer it leaves and the payload
\* it returns (Null when it returns null); threw: the TypeError raised by
\* data[0].toString(16) when data is empty
RECURSIVE extractResponseFrame(_)
extractResponseFrame(buffer) ==
    IF Len(buffer) < 8
    THEN [buffer |-> buffer, response |-> Null, threw |-> FALSE]
    ELSE LET offset == findHeader(buffer)
         IN  IF offset = -1
             THEN [buffer |-> keepTail(buffer), response |-> Null,
                   threw |-> FALSE]
             ELSE LET b == slice(buffer, offset)
                  IN  IF Len(b) < 5
                      THEN [buffer |-> b, response |-> Null, threw |-> FALSE]
                      ELSE LET length         == b[4]
                               lengthChecksum == b[5]
                               totalLength    == 5 + length + 2
                               data           == SubSeq(b, 6, 5 + length)
                           IN  IF (length + lengthChecksum) % 256 # 0
                               THEN extractResponseFrame(slice(b, 3))
                               ELSE IF Len(b) < totalLength
                               THEN [buffer |-> b, response |-> Null, threw |-> FALSE]
                               ELSE IF negate(Sum(data)) # b[6 + length]
                               THEN extractResponseFrame(slice(b, 3))
                               ELSE IF data = <<>>
                               THEN [buffer |-> b, response |-> Null, threw |-> TRUE]
                               ELSE IF data[1] # PN532_TO_HOST
                               THEN extractResponseFrame(slice(b, totalLength))
                               ELSE [buffer |-> slice(b, totalLength),
                                     response |-> Tail(data), threw |-> FALSE]

\* leaving the buffer as it is from the ACK on
afterAckKeepingAck(buffer, ackIndex) == slice(buffer, ackIndex)

\* this.buffer.slice(ackIndex + ACK_SEQ.length)
afterAck(buffer, ackIndex) == slice(buffer, ackIndex + Len(ACK_SEQ))

\* the body of the read loop of sendCommand for one chunk
receive(buffer, ackReceived, chunk) ==
    IF chunk = <<>>
    THEN [buffer |-> buffer, ackReceived |-> ackReceived, response |-> Null,
          threw |-> FALSE]
    ELSE LET appended == buffer \o chunk
             ackIndex == IF ackReceived THEN -1 ELSE indexOf(appended, ACK_SEQ)
             r == extractResponseFrame(IF ackIndex # -1
                                       THEN afterAck(appended, ackIndex)
                                       ELSE appended)
         IN  [buffer |-> r.buffer, ackReceived |-> ackReceived \/ ackIndex # -1,
              response |-> r.response, threw |-> r.threw]

\* the status byte that starts an I2C read of a ready chip
Ready == <<1>>

\* a frame from the chip: data is D5, the response code and its parameters
responseFrame(data) ==
    <<PREAMBLE, START_CODE1, START_CODE2, Len(data), negate(Len(data))>>
        \o data \o <<negate(Sum(data)), POSTAMBLE>>

\* the replies to GetFirmwareVersion, SAMConfiguration, TgInitAsTarget and
\* TgGetData (with status 00 and with an error status)
ResponseData ==
    {<<PN532_TO_HOST, 3, 50, 1, 6, 7>>, <<PN532_TO_HOST, 21>>,
     <<PN532_TO_HOST, 141, 4>>, <<PN532_TO_HOST, 135, 0>>,
     <<PN532_TO_HOST, 135, 41>>}

\* what the chip delivers, read by read, after the command frame: ACK and
\* response in one read, in two reads (the second with or without a status
\* byte), a response with no ACK, an ACK with no response, nothing
ChunkScripts ==
    UNION {{<<Ready \o ACK_SEQ \o responseFrame(d)>>,
            <<Ready \o ACK_SEQ, responseFrame(d)>>,
            <<Ready \o ACK_SEQ, Ready \o responseFrame(d)>>,
            <<Ready \o responseFrame(d)>>} : d \in ResponseData}
        \cup {<<Ready \o ACK_SEQ>>, <<>>}

\* a reply whose length checksum is off by one
wrongLengthChecksum(data) ==
    [responseFrame(data) EXCEPT ![5] = (@ + 1) % 256]

\* a reply whose data checksum is off by one
wrongDataChecksum(data) ==
    [responseFrame(data) EXCEPT ![Len(data) + 6] = (@ + 1) % 256]

\* the error frame of the chip, 00 00 FF 01 FF 7F 81 00
SyntaxErrorFrame == responseFrame(<<127>>)

\* a frame with no data at all, 00 00 FF 00 00 00 00, and one more zero
ZeroLengthFrame == responseFrame(<<>>) \o <<0>>

\* a header announcing sixteen bytes of data, and nothing behind it
TruncatedFrame == <<PREAMBLE, START_CODE1, START_CODE2, 16, negate(16)>>

\* frames extractResponseFrame must not accept: wrong checksums, TFI D4 or
\* 7F instead of D5, no TFI, no data
Malformed ==
    {wrongLengthChecksum(d) : d \in ResponseData}
        \cup {wrongDataChecksum(d) : d \in ResponseData}
        \cup {responseFrame(<<HOST_TO_PN532, 3>>), SyntaxErrorFrame, ZeroLengthFrame,
              TruncatedFrame}

\* bytes with no 00 00 FF among them: a status byte, padding, padding that
\* ends in zeros
Garbage ==
    {<<>>, <<1>>, <<128, 128, 128, 128, 128, 128, 128, 128>>,
     <<128, 128, 128, 128, 128, 128, 128, 0>>,
     <<128, 128, 128, 128, 128, 128, 0, 0>>}

\* after the ACK: a malformed frame and then a reply, in one read or in two;
\* a malformed frame alone; garbage and a reply cut at any byte
FramerScripts ==
    UNION {{<<Ready \o ACK_SEQ, Ready \o m \o responseFrame(d)>>,
            <<Ready \o ACK_SEQ, Ready \o m, Ready \o responseFrame(d)>>} :
              m \in Malformed, d \in {<<PN532_TO_HOST, 135, 0>>, <<PN532_TO_HOST, 21>>}}
        \cup {<<Ready \o ACK_SEQ, Ready \o m>> : m \in Malformed}
        \cup UNION {{<<Ready \o ACK_SEQ,
                        g \o SubSeq(responseFrame(d), 1, k),
                        SubSeq(responseFrame(d), k + 1, Len(responseFrame(d)))>> :
                          k \in 0..Len(responseFrame(d))} :
                      g \in Garbage, d \in ResponseData}

\* a service whose bus is open and which initialize has marked initialized,
\* in one call of sendCommand
Opened == [NoCommand EXCEPT !.i2cBus = TRUE, !.isInitialized = TRUE,
                            !.op = "sendCommand"]

MaxCalls    == 3
MaxCommands == 4
MaxPolls    == 2

\* what the chip delivers for one command of a public call: ACK and the
\* reply to GetFirmwareVersion, SAMConfiguration, TgInitAsTarget or TgGetData,
\* or a frame whose first byte after the TFI is 00; an ACK and then nothing,
\* an ACK and then the error frame
ServiceReplies ==
    {<<Ready \o ACK_SEQ \o responseFrame(d)>> :
        d \in {<<PN532_TO_HOST, 3, 50, 1, 6, 7>>, <<PN532_TO_HOST, 21>>,
               <<PN532_TO_HOST, 141, 4>>, <<PN532_TO_HOST, 135, 0>>,
               <<PN532_TO_HOST, 0>>}}
        \cup {<<Ready \o ACK_SEQ>>, <<Ready \o ACK_SEQ, Ready \o SyntaxErrorFrame>>}

\* the deliveries for the commands to come, one after the other
ServiceScripts == [1..MaxCommands -> ServiceReplies]

Pn532Init ==
    /\ sessions = Nobody
    /\ queue = <<>>
    /\ isProcessing = FALSE
    /\ workers = Nobody
    /\ now = 0
    /\ nextId = 1
    /\ lastCall = NoCall
    /\ dequeued = <<>>
    /\ reaped = {}
    /\ shutdownCalled = FALSE
    /\ codec = NoCodec
    /\ pn532 \in {[Opened EXCEPT !.pc = "sendCommand", !.command = c, !.chunks = s] :
                     c \in Commands, s \in ChunkScripts}
                 \cup {[Opened EXCEPT !.pc = "sendCommand",
                                      !.command = <<CMD_TG_GET_DATA>>,
                                      !.chunks = s] : s \in FramerScripts}
                 \cup {[NoCommand EXCEPT !.scripts = s] : s \in ServiceScripts}
    /\ api = NoApi

\* sendCommand up to the write: the buffer is reset, the frame built and written
sendCommandWrites ==
    /\ pn532.pc = "sendCommand"
    /\ pn532' = [pn532 EXCEPT !.pc = "reading", !.buffer = <<>>,
                              !.reads = <<>>, !.ackReceived = FALSE,
                              !.threw = FALSE, !.written = @ + 1,
                              !.frame = buildFrame(pn532.command)]
    /\ UNCHANGED <<managerVars, codec, api>>

\* one turn of the read loop: a chunk is read and appended, the ACK looked
\* for, a response frame extracted; an error ends the call in the catch block
sendCommandReads ==
    /\ pn532.pc = "reading"
    /\ pn532.chunks # <<>>
    /\ LET r == receive(pn532.buffer, pn532.ackReceived, Head(pn532.chunks))
       IN  pn532' = [pn532 EXCEPT
                        !.chunks = Tail(@),
                        !.reads = Append(@, Head(pn532.chunks)),
                        !.buffer = r.buffer,
                        !.ackReceived = r.ackReceived,
                        !.response = r.response,
                        !.threw = r.threw,
                        !.pc = IF r.threw \/ r.response # Null
                               THEN "returned" ELSE "reading"]
    /\ UNCHANGED <<managerVars, codec, api>>

\* the loop ends on its timeout: sendCommand returns null
sendCommandTimesOut ==
    /\ pn532.pc = "reading"
    /\ pn532' = [pn532 EXCEPT !.pc = "returned", !.response = Null]
    /\ UNCHANGED <<managerVars, codec, api>>

\* the start of sendCommand(command, timeout) inside a public call: the chip
\* will answer with the next delivery, or with nothing when none is left
startCommand(op, command) ==
    [pn532 EXCEPT !.op = op, !.pc = "sendCommand", !.command = command,
                  !.result = "none", !.reads = <<>>,
                  !.chunks = IF pn532.scripts = <<>> THEN <<>> ELSE Head(pn532.scripts),
                  !.scripts = IF pn532.scripts = <<>> THEN <<>> ELSE Tail(pn532.scripts)]

\* a public call returns value
returns(value) ==
    [pn532 EXCEPT !.op = "none", !.result = value]

\* close(): the bus is closed and forgotten, isInitialized is cleared
closed(service) ==
    [service EXCEPT !.i2cBus = FALSE, !.isInitialized = FALSE]

\* initialize() up to the await in sendCommand: opens the bus and asks for
\* the firmware version
initialize ==
    /\ pn532.op = "none"
    /\ pn532.calls < MaxCalls
    /\ pn532' = [startCommand("getFirmwareVersion", <<CMD_GET_FIRMWARE_VERSION>>)
                    EXCEPT !.i2cBus = TRUE, !.calls = @ + 1]
    /\ UNCHANGED <<managerVars, codec, api>>

\* getFirmwareVersion returns to initialize: null closes the service and
\* returns false, a version goes on to configureSAM
getFirmwareVersionReturns ==
    /\ pn532.pc = "returned"
    /\ pn532.op = "getFirmwareVersion"
    /\ pn532' = IF pn532.response = Null \/ Len(pn532.response) < 4
                THEN closed(returns("false"))
                ELSE startCommand("configureSAM", <<CMD_SAM_CONFIGURATION, 1, 20, 1>>)
    /\ UNCHANGED <<managerVars, codec, api>>

\* configureSAM returns to initialize, which does not look at its value:
\* isInitialized = true, return true
configureSAMReturns ==
    /\ pn532.pc = "returned"
    /\ pn532.op = "configureSAM"
    /\ pn532' = [returns("true") EXCEPT !.isInitialized = TRUE]
    /\ UNCHANGED <<managerVars, codec, api>>

\* initAsTarget(ndefMessage): false at once when not initialized, else the
\* TgInitAsTarget command
initAsTarget(message) ==
    /\ pn532.op = "none"
    /\ pn532.calls < MaxCalls
    /\ pn532' = [(IF pn532.isInitialized
                    THEN startCommand("initAsTarget", tgInitAsTarget(message))
                    ELSE returns("false"))
                    EXCEPT !.calls = @ + 1]
    /\ UNCHANGED <<managerVars, codec, api>>

\* sendCommand returns to initAsTarget: null is false, a response is true
tgInitAsTargetReturns ==
    /\ pn532.pc = "returned"
    /\ pn532.op = "initAsTarget"
    /\ pn532' = returns(IF pn532.response = Null THEN "false" ELSE "true")
    /\ UNCHANGED <<managerVars, codec, api>>

\* waitForTag(timeoutMs): the first TgGetData; with no bus sendCommand throws
\* and the catch returns false
waitForTag ==
    /\ pn532.op = "none"
    /\ pn532.calls < MaxCalls
    /\ pn532' = [(IF pn532.i2cBus
                    THEN startCommand("waitForTag", <<CMD_TG_GET_DATA>>)
                    ELSE returns("false"))
                    EXCEPT !.calls = @ + 1, !.polls = 1]
    /\ UNCHANGED <<managerVars, codec, api>>

\* response && response.length > 0 && response[0] === 0x00
tagDetected(response) ==
    /\ response # Null
    /\ Len(response) > 0
    /\ response[1] = 0

\* sendCommand returns to waitForTag: true when the response passes the
\* test; else, after the delay, the next TgGetData or, timeoutMs being over,
\* false
tgGetDataReturns ==
    /\ pn532.pc = "returned"
    /\ pn532.op = "waitForTag"
    /\ IF tagDetected(pn532.response)
       THEN pn532' = returns("true")
       ELSE \/ /\ pn532.polls < MaxPolls
               /\ pn532' = [startCommand("waitForTag", <<CMD_TG_GET_DATA>>)
                               EXCEPT !.polls = @ + 1]
            \/ pn532' = returns("false")
    /\ UNCHANGED <<managerVars, codec, api>>

Pn532Next ==
    \/ sendCommandWrites
    \/ sendCommandReads
    \/ sendCommandTimesOut
    \/ initialize
    \/ getFirmwareVersionReturns
    \/ configureSAMReturns
    \/ \E message \in {encode(TestUrl)} : initAsTarget(message)
    \/ tgInitAsTargetReturns
    \/ waitForTag
    \/ tgGetDataReturns

Pn532Spec == Pn532Init /\ [][Pn532Next]_vars

\* --------------------------------------------- the redirect Lambda
MaxClock   == 1
MaxReading == 1

TTL_HOURS == 24

\* API_KEY as deployed: not set, set to the empty string, set to a key
ApiKeys == {Undefined, "", "kiosk-key"}

\* header names a request may use, and String.toLowerCase on them
HeaderNames == {"x-api-key", "X-API-Key", "content-type"}
toLowerCase ==
    [n \in HeaderNames |-> IF n = "content-type" THEN n ELSE "x-api-key"]

\* event.headers as Object.entries lists them: no header, the api key under
\* one spelling of its name, alone or after another header
Headers ==
    {<<>>}
        \cup {<<[name |-> n, value |-> v]>> :
                 n \in HeaderNames \ {"content-type"}, v \in {"kiosk-key", "wrong"}}
        \cup {<<[name |-> "content-type", value |-> "application/json"],
                [name |-> "X-API-Key", value |-> "kiosk-key"]>>}

\* event.body: none, text that is not JSON, or an object whose orderId and
\* receiptUrl may be missing
NoBody      == [text |-> "", orderId |-> Undefined, receiptUrl |-> Undefined]
InvalidJson == [text |-> "{", orderId |-> Undefined, receiptUrl |-> Undefined]
OrderIds    == {"A", "B"}
ReceiptUrls == {"https://receipt/A", "https://receipt/B"}
Bodies ==
    {NoBody, InvalidJson}
        \cup [text : {"{...}"},
              orderId : OrderIds \cup {Undefined},
              receiptUrl : ReceiptUrls \cup {Undefined}]

\* the request an answer belongs to
received(route, headers) == [route |-> route, headers |-> headers]

\* getHeader: the value of the first entry whose lower-cased name is name
getHeader(headers, name) ==
    LET hits == {i \in DOMAIN headers : toLowerCase[headers[i].name] = name}
    IN  IF hits = {} THEN Undefined
        ELSE headers[CHOOSE i \in hits : \A j \in hits : i <= j].value

\* a check that lets every request through while API_KEY is not set
ensureApiKeyIfSet(headers) ==
    \/ api.apiKey \in {Undefined, ""}
    \/ getHeader(headers, "x-api-key") = api.apiKey

\* ensureApiKey
ensureApiKey(headers) ==
    /\ api.apiKey \notin {Undefined, ""}
    /\ getHeader(headers, "x-api-key") = api.apiKey

\* `${n}`, the N attribute written for a number
N(n) == ToString(n)

\* Number(item.x.N), for the times the clock can show
Number(s) == CHOOSE n \in 0..MaxClock : N(n) = s

\* json(statusCode, { error })
jsonError(statusCode, error) == [statusCode |-> statusCode, error |-> error]

\* the Item handleSave puts
savedItem(orderId, receiptUrl) ==
    [pk |-> "latest", orderId |-> orderId, receiptUrl |-> receiptUrl,
     status |-> "pending", scannedAt |-> Undefined,
     updatedAt |-> N(api.time), ttl |-> N(api.time + TTL_HOURS * 3600)]

\* POST /api/redirect
handleSave(headers, body) ==
    /\ IF ~ensureApiKey(headers)
       THEN api' = [api EXCEPT !.request = received("POST /api/redirect", headers),
                       !.response = jsonError(401, "unauthorized")]
       ELSE IF body = NoBody
       THEN api' = [api EXCEPT !.request = received("POST /api/redirect", headers),
                       !.response = jsonError(400, "body required")]
       ELSE IF body = InvalidJson
       THEN api' = [api EXCEPT !.request = received("POST /api/redirect", headers),
                       !.response = jsonError(400, "invalid json")]
       ELSE IF body.orderId = Undefined \/ body.receiptUrl = Undefined
       THEN api' = [api EXCEPT !.request = received("POST /api/redirect", headers),
                       !.response =
                        jsonError(400, "orderId and receiptUrl required")]
       ELSE api' = [api EXCEPT
                       !.request = received("POST /api/redirect", headers),
                       !.item = savedItem(body.orderId, body.receiptUrl),
                       !.response = [statusCode |-> 200, success |-> TRUE,
                                     redirectUrl |-> "/r"]]
    /\ UNCHANGED <<managerVars, codec, pn532>>

\* GET /r up to the end of its GetItem: 404 when the row has no receiptUrl
redirectReads ==
    /\ IF api.item.receiptUrl = Undefined
       THEN api' = [api EXCEPT !.request = received("GET /r", <<>>),
                               !.response = jsonError(404, "not found or expired")]
       ELSE /\ Len(api.reading) < MaxReading
            /\ api' = [api EXCEPT !.reading = Append(@, api.item)]
    /\ UNCHANGED <<managerVars, codec, pn532>>

\* an Item that carries the row over without marking it
redirectedItemUnmarked(item) == item

\* the Item handleRedirect puts for the item it read
redirectedItem(item) ==
    [pk |-> "latest",
     orderId |-> IF item.orderId # Undefined THEN item.orderId ELSE "unknown",
     receiptUrl |-> item.receiptUrl,
     status |-> "scanned", scannedAt |-> N(api.time),
     updatedAt |-> N(api.time), ttl |-> N(api.time + TTL_HOURS * 3600)]

\* GET /r from its PutItem on: the k-th invocation that has read writes the
\* row and answers 302
redirectWrites(k) ==
    /\ k \in 1..Len(api.reading)
    /\ api' = [api EXCEPT
                  !.request = received("GET /r", <<>>),
                  !.reading = SubSeq(@, 1, k - 1) \o SubSeq(@, k + 1, Len(@)),
                  !.item = redirectedItem(api.reading[k]),
                  !.response = [statusCode |-> 302,
                                Location |-> api.reading[k].receiptUrl]]
    /\ UNCHANGED <<managerVars, codec, pn532>>

\* POST /api/scan-complete
handleScanComplete(headers, body) ==
    /\ IF ~ensureApiKey(headers)
       THEN api' = [api EXCEPT !.request = received("POST /api/scan-complete", headers),
                       !.response = jsonError(401, "unauthorized")]
       ELSE IF body = NoBody
       THEN api' = [api EXCEPT !.request = received("POST /api/scan-complete", headers),
                       !.response = jsonError(400, "body required")]
       ELSE IF body = InvalidJson
       THEN api' = [api EXCEPT !.request = received("POST /api/scan-complete", headers),
                       !.response = jsonError(400, "invalid json")]
       ELSE IF body.orderId = Undefined
       THEN api' = [api EXCEPT !.request = received("POST /api/scan-complete", headers),
                       !.response = jsonError(400, "orderId required")]
       ELSE api' = [api EXCEPT
                       !.request = received("POST /api/scan-complete", headers),
                       !.item = [pk |-> "latest", orderId |-> body.orderId,
                                 receiptUrl |-> Undefined, status |-> "scanned",
                                 scannedAt |-> N(api.time), updatedAt |-> N(api.time),
                                 ttl |-> N(api.time + TTL_HOURS * 3600)],
                       !.response = [statusCode |-> 200, success |-> TRUE,
                                     status |-> "scanned", orderId |-> body.orderId]]
    /\ UNCHANGED <<managerVars, codec, pn532>>

\* GET /api/session-status
handleSessionStatus ==
    /\ IF api.item = NoItem
       THEN api' = [api EXCEPT !.request = received("GET /api/session-status", <<>>),
                       !.response = jsonError(404, "not found or expired")]
       ELSE api' = [api EXCEPT !.request = received("GET /api/session-status", <<>>),
                       !.response =
               [statusCode |-> 200,
                orderId    |-> api.item.orderId,
                receiptUrl |-> api.item.receiptUrl,
                status     |-> IF api.item.status # Undefined
                               THEN api.item.status ELSE "pending",
                scannedAt  |-> IF api.item.scannedAt # Undefined
                               THEN Number(api.item.scannedAt) ELSE Undefined,
                updatedAt  |-> IF api.item.updatedAt # Undefined
                               THEN Number(api.item.updatedAt) ELSE Undefined]]
    /\ UNCHANGED <<managerVars, codec, pn532>>

\* Date.now() advances by a second
ApiTick ==
    /\ api.time < MaxClock
    /\ api' = [api EXCEPT !.time = @ + 1]
    /\ UNCHANGED <<managerVars, codec, pn532>>

ApiInit ==
    /\ sessions = Nobody
    /\ queue = <<>>
    /\ isProcessing = FALSE
    /\ workers = Nobody
    /\ now = 0
    /\ nextId = 1
    /\ lastCall = NoCall
    /\ dequeued = <<>>
    /\ reaped = {}
    /\ shutdownCalled = FALSE
    /\ codec = NoCodec
    /\ pn532 = NoCommand
    /\ api \in {[NoApi EXCEPT !.apiKey = k] : k \in ApiKeys}

Save         == \E h \in Headers, b \in Bodies : handleSave(h, b)
RedirectWrite == \E k \in 1..MaxReading : redirectWrites(k)
ScanComplete == \E h \in Headers, b \in Bodies : handleScanComplete(h, b)

\* the routes of handler
ApiNext ==
    \/ Save
    \/ redirectReads
    \/ RedirectWrite
    \/ ScanComplete
    \/ handleSessionStatus
    \/ ApiTick

ApiSpec == ApiInit /\ [][ApiNext]_vars

\* ------------------------------------------------------------------ claims
Active == {id \in DOMAIN sessions : sessions[id].status \in {"ready", "tagging"}}

\* C1: at most one session in the map is ready or tagging.
C1_AtMostOneActive == Cardinality(Active) <= 1

\* C2: at most one controller operation is in progress: no operation is
\* started while an earlier one has not returned.
C2_OneControllerOperation == Cardinality(DOMAIN workers) <= 1

Rank(status) ==
    CASE status = "pending" -> 0
      [] status = "ready"   -> 1
      [] status = "tagging" -> 2
      [] OTHER              -> 3

\* C3: no step moves a session's status backwards in
\* pending < ready < tagging < {completed, expired, failed}, and no step
\* changes a terminal status.
C3_StatusMonotonic ==
    [][\A id \in DOMAIN sessions \cap DOMAIN sessions' :
          /\ Rank(sessions'[id].status) >= Rank(sessions[id].status)
          /\ sessions[id].status \in Terminal
                => sessions'[id].status = sessions[id].status]_vars

\* a session has completed and the worker is tagging a later one
C3_Witness ==
    \E a, b \in DOMAIN sessions :
        /\ sessions[a].status = "completed"
        /\ sessions[b].status = "tagging"

\* C4: of two sessions, the later-created one stays pending until the
\* earlier one is completed, expired or failed.
C4_LaterWaitsForEarlier ==
    \A a, b \in DOMAIN sessions :
        (a < b /\ sessions[b].status # "pending")
            => sessions[a].status \in Terminal

\* C5: sessions leave the queue in the order createSession was called (ids
\* are handed out in call order): the ids shifted so far are in increasing
\* order and older than everything still queued.
C5_Fifo ==
    /\ \A i, j \in 1..Len(dequeued) : i < j => dequeued[i] < dequeued[j]
    /\ \A i, j \in 1..Len(queue) : i < j => queue[i] < queue[j]
    /\ \A i \in 1..Len(dequeued), k \in 1..Len(queue) : dequeued[i] < queue[k]

\* the worker found an expired session at the head, dropped it and went on
\* to the one created after it
C5_Witness ==
    \E i \in 1..Len(dequeued) :
        /\ i < Len(dequeued)
        /\ dequeued[i] \in DOMAIN sessions
        /\ sessions[dequeued[i]].status = "expired"
        /\ sessions[dequeued[i]].error = NoError
        /\ dequeued[i + 1] \in DOMAIN workers

\* C6: without shutdown and with every controller call settling, every
\* created session eventually is completed, expired or failed.
C6_EverySessionEnds ==
    \A id \in Ids :
        (id \in DOMAIN sessions)
            ~> (id \in DOMAIN sessions /\ sessions[id].status \in Terminal)

\* C7: createSession returns the new session with status pending.
C7_ReturnsPending == lastCall # NoCall => lastCall.status = "pending"

\* C8: a receiptUrl supplied in the request is the session's receiptUrl and
\* the url encoded into the NDEF message handed to initAsTarget.
C8_UsesSuppliedUrl ==
    (lastCall.sessionId \in DOMAIN sessions /\ lastCall.receiptUrl # NoUrl)
        => /\ sessions[lastCall.sessionId].receiptUrl = lastCall.receiptUrl
           /\ lastCall.sessionId \in DOMAIN workers
                => workers[lastCall.sessionId].ndef = encode(lastCall.receiptUrl)

\* C9: once shutdown has been called the map and the queue are empty and
\* stay empty: no session created afterwards is accepted.
C9_NothingAfterShutdown ==
    shutdownCalled => (DOMAIN sessions = {} /\ queue = <<>>)

\* C10: every session the reaper deleted was completed, expired or failed
\* and past its expiresAt when it was deleted.
C10_ReapsOnlyTerminalExpired ==
    \A r \in reaped : r.status \in Terminal /\ r.expiresAt < r.at

\* the reaper deleted a session while another one, also past its expiresAt
\* but not terminal, stayed in the map
C10_Witness ==
    \E r \in reaped, id \in DOMAIN sessions :
        /\ sessions[id].expiresAt < r.at
        /\ sessions[id].status \notin Terminal

\* the record encode returned, once it has
Encoded == codec.step \in {"encoded", "decoded"}
RecordPayload == SubSeq(codec.record, 5, Len(codec.record))
RecordRemainder == SubSeq(codec.record, 6, Len(codec.record))
MatchingPrefixes == {i \in 1..Len(prefixes) : startsWith(codec.url, prefixes[i].prefix)}

\* C16: decode(encode(u)) = u for every url encode turns into a record of
\* at most 255 payload bytes, whatever prefix code it gets.
C16_RoundTrip ==
    (codec.step = "decoded" /\ Len(RecordPayload) <= 255)
        => codec.decoded = codec.url

\* C17: the prefix code encode writes belongs to a table prefix the url
\* starts with that is at least as long as every other table prefix the url
\* starts with; with no such prefix the code is 0 and the url is kept whole.
C17_LongestPrefix ==
    Encoded =>
        IF MatchingPrefixes = {}
        THEN codec.record[5] = 0 /\ RecordRemainder = codec.url
        ELSE \E j \in MatchingPrefixes :
                /\ prefixes[j].code = codec.record[5]
                /\ \A i \in MatchingPrefixes :
                       Len(prefixes[j].prefix) >= Len(prefixes[i].prefix)

\* C18: encode returns no record for a url whose payload exceeds 255 bytes:
\* the payload-length byte of every record returned is the number of
\* payload bytes in it.
C18_PayloadLengthExact ==
    Encoded => /\ Len(RecordPayload) <= 255
               /\ codec.record[3] = Len(RecordPayload)

\* C19: for every url the record is D1 01 n 55 c r, with c the code of a
\* table prefix the url starts with and r the url without it (c = 0 and
\* r the url when none matches) and n = 1 + the length of r; the record of
\* https://example.com/r/abc is D1 01 12 55 04 'example.com/r/abc'.
C19_RecordLayout ==
    Encoded =>
        /\ Len(codec.record) >= 5
        /\ codec.record[1] = 209
        /\ codec.record[2] = 1
        /\ codec.record[3] = 1 + Len(RecordRemainder)
        /\ codec.record[4] = 85
        /\ IF MatchingPrefixes = {}
           THEN codec.record[5] = 0 /\ RecordRemainder = codec.url
           ELSE \E j \in MatchingPrefixes :
                   /\ prefixes[j].code = codec.record[5]
                   /\ codec.url = prefixes[j].prefix \o RecordRemainder
        /\ codec.url = ExampleUrl
              => codec.record = <<209, 1, 18, 85, 4, 101, 120, 97, 109, 112, 108,
                                  101, 46, 99, 111, 109, 47, 114, 47, 97, 98, 99>>

\* C20 as stated: encode('tel:+821012345678') is D1 01 0F 55 05
\* '+821012345678'.
C20_TelExampleLength15 ==
    (Encoded /\ codec.url = TelUrl)
        => codec.record = <<209, 1, 15, 85, 5, 43, 56, 50, 49, 48, 49, 50, 51,
                            52, 53, 54, 55, 56>>

\* C20 amended: encode('tel:+821012345678') is D1 01 0E 55 05
\* '+821012345678': prefix code 5 and payload-length byte 14, one more than
\* the 13 bytes of '+821012345678'.
C20_TelExample ==
    (Encoded /\ codec.url = TelUrl)
        => codec.record = <<209, 1, 14, 85, 5, 43, 56, 50, 49, 48, 49, 50, 51,
                            52, 53, 54, 55, 56>>

\* encode has returned the record of 'tel:+821012345678'
C20_Witness == codec.step = "encoded" /\ codec.url = TelUrl

IsPrefix(s, full) == Len(s) <= Len(full) /\ s = SubSeq(full, 1, Len(s))

\* C15: on the mock controller, after a single createSession call, the
\* values the session's status is given are pending, ready, tagging,
\* completed, in that order and nothing else; once it is completed getStats
\* reports completed = 1 (as long as the session is in the map).
C15_MockHappyPath ==
    (nextId = 2 /\ 1 \in DOMAIN sessions) =>
        /\ IsPrefix(sessions[1].history, <<"pending", "ready", "tagging", "completed">>)
        /\ sessions[1].status \in Terminal
              => /\ sessions[1].history = <<"pending", "ready", "tagging", "completed">>
                 /\ getStats.completed = 1

\* the only session created has completed and getStats counts it
C15_Witness ==
    /\ nextId = 2
    /\ 1 \in DOMAIN sessions
    /\ sessions[1].status = "completed"
    /\ getStats.completed = 1

\* C12: with controller calls held to their timeouts, no session is still
\* pending, ready or tagging after createdAt + sessionTimeout +
\* taggingTimeout (expiresAt is createdAt + sessionTimeout).
C12_EndsWithinBothTimeouts ==
    \A id \in DOMAIN sessions :
        sessions[id].status \notin Terminal
            => now <= sessions[id].expiresAt + TaggingTimeoutTicks

C11_EndsExpiredAfterExpiry ==
    [][\A id \in DOMAIN sessions \cap DOMAIN sessions' :
          (/\ sessions[id].status \notin Terminal
           /\ now > sessions[id].expiresAt
           /\ sessions'[id].status \in Terminal)
              => sessions'[id].status = "expired"]_vars

\* C11 amended: a session that is still pending after its expiresAt has
\* passed is never marked ready: the only status it is given is expired.
C11_PendingEndsExpired ==
    [][\A id \in DOMAIN sessions \cap DOMAIN sessions' :
          (sessions[id].status = "pending" /\ now > sessions[id].expiresAt)
              => sessions'[id].status \in {"pending", "expired"}]_vars

\* the worker took a session off the queue after its expiresAt and marked
\* it expired
C11_Witness ==
    \E id \in DOMAIN sessions :
        /\ sessions[id].history = <<"pending", "expired">>
        /\ now > sessions[id].expiresAt

\* C13: a session created with a url of 280 bytes is never handed to the
\* controller and is not marked ready, tagging or completed: it ends failed.
C13_LongUrlFailsBeforeController ==
    lastCall.receiptUrl = LongUrl =>
        /\ lastCall.sessionId \notin DOMAIN workers
        /\ lastCall.sessionId \in DOMAIN sessions
              => sessions[lastCall.sessionId].status \in {"pending", "failed", "expired"}


\* the ids shifted off the queue in this step
NewlyDequeued == SubSeq(dequeued', Len(dequeued) + 1, Len(dequeued'))

\* C26: whenever isProcessing is false at the end of a turn, the queue is
\* empty: no queued session is left without a worker loop.
C26_IdleMeansEmptyQueue == ~isProcessing => queue = <<>>

\* C27: when initAsTarget returns false for a session of the map, the session
\* goes from ready to failed with a non-empty error and was never tagging,
\* the worker awaits reinitialize instead of waitForTag and shifts nothing
\* off the queue in that turn; a worker that goes back to the loop after
\* such a session comes from reinitialize; and waitForTag is only called
\* after initAsTarget returned true, for a session then marked tagging.
C27_InitFalseFailsAndReinitializes ==
    [][\A id \in Ids \cap DOMAIN sessions :
          /\ initAsTargetReturns(id, "false") =>
                /\ sessions[id].status = "ready"
                /\ sessions'[id].status = "failed"
                /\ sessions'[id].error # NoError
                /\ sessions'[id].history = <<"pending", "ready", "failed">>
                /\ id \in DOMAIN workers'
                /\ workers'[id].pc = "reinitialize"
                /\ dequeued' = dequeued
          /\ (/\ sessions[id].error = InitFailed
              /\ id \in DOMAIN workers
              /\ id \notin DOMAIN workers') => workers[id].pc = "reinitialize"
          /\ (/\ id \in DOMAIN workers
              /\ workers[id].pc # "waitForTag"
              /\ id \in DOMAIN workers'
              /\ workers'[id].pc = "waitForTag") =>
                /\ initAsTargetReturns(id, "true")
                /\ sessions'[id].error # InitFailed
                /\ sessions'[id].status = "tagging"]_vars

\* a session failed by initAsTarget returning false, its reinitialize has
\* returned and the worker has gone on to a later session
C27_Witness ==
    \E id \in DOMAIN sessions, later \in DOMAIN sessions :
        /\ sessions[id].error = InitFailed
        /\ sessions[id].status = "failed"
        /\ id \notin DOMAIN workers
        /\ later > id
        /\ sessions[later].status # "pending"

\* C28: when waitForTag returns false for a session in tagging, the session
\* becomes expired with error 'Tagging timeout' and the worker goes back to
\* the loop without calling reinitialize; when it returns true the session
\* becomes completed; and a session becomes completed in no other step.
C28_WaitForTagOutcomes ==
    [][\A id \in Ids \cap DOMAIN sessions :
          /\ waitForTagReturns(id, "false") =>
                /\ sessions[id].status = "tagging"
                /\ sessions'[id].status = "expired"
                /\ sessions'[id].error = TaggingTimeout
                /\ id \notin DOMAIN workers'
                /\ \A w \in DOMAIN workers' : workers'[w].pc = "reinitialize" =>
                       (w \in DOMAIN workers /\ workers[w].pc = "reinitialize")
          /\ waitForTagReturns(id, "true") =>
                /\ sessions[id].status = "tagging"
                /\ sessions'[id].status = "completed"
          /\ (/\ sessions[id].status # "completed"
              /\ id \in DOMAIN sessions'
              /\ sessions'[id].status = "completed") =>
                /\ waitForTagReturns(id, "true")
                /\ sessions[id].status = "tagging"]_vars

\* one session timed out in tagging and a later one was completed
C28_Witness ==
    \E id \in DOMAIN sessions, later \in DOMAIN sessions :
        /\ sessions[id].history = <<"pending", "ready", "tagging", "expired">>
        /\ sessions[id].error = TaggingTimeout
        /\ later > id
        /\ sessions[later].status = "completed"

\* C29: a session shifted off the queue after its expiresAt is marked expired
\* directly from pending, no controller call is made for it, and the loop
\* goes on: the next queued id is shifted in the same turn, or the queue is
\* empty.
C29_ExpiredAtDequeueIsSkipped ==
    [][\A k \in 1..Len(NewlyDequeued) :
          LET id == NewlyDequeued[k]
          IN  (id \in DOMAIN sessions' /\ now > sessions'[id].expiresAt) =>
                 /\ sessions'[id].history = <<"pending", "expired">>
                 /\ sessions'[id].error = NoError
                 /\ id \notin DOMAIN workers'
                 /\ k = Len(NewlyDequeued) => queue' = <<>>]_vars

\* a session was skipped as expired and the session queued behind it was
\* handed to the controller in the same turn
C29_Witness ==
    \E k \in 1..Len(dequeued) - 1 :
        LET id == dequeued[k]
            after == dequeued[k + 1]
        IN  /\ id \in DOMAIN sessions
            /\ sessions[id].history = <<"pending", "expired">>
            /\ after \in DOMAIN workers
            /\ workers[after].since > sessions[id].expiresAt

\* C30: a createSession call starts no controller operation: it changes only
\* the session map and the queue.
C30_CreateLeavesControllerAlone ==
    [][nextId' # nextId => (workers' = workers /\ isProcessing' = isProcessing)]_vars


\* C21: the frame written for command payload p is 00 00 FF, len, lcs, D4, p,
\* dcs, 00 with len = |p| + 1, (len + lcs) mod 256 = 0 and
\* (D4 + sum of p + dcs) mod 256 = 0; for p = 02 it is
\* 00 00 FF 02 FE D4 02 2A 00.
C21_InformationFrame ==
    pn532.pc \in {"reading", "returned"} =>
        LET p == pn532.command
            f == pn532.frame
        IN  /\ Len(f) = Len(p) + 8
            /\ SubSeq(f, 1, 3) = <<0, 0, 255>>
            /\ f[4] = Len(p) + 1
            /\ (f[4] + f[5]) % 256 = 0
            /\ f[6] = 212
            /\ SubSeq(f, 7, Len(p) + 6) = p
            /\ (212 + Sum(p) + f[Len(p) + 7]) % 256 = 0
            /\ f[Len(p) + 8] = 0
            /\ p = <<2>> => f = <<0, 0, 255, 2, 254, 212, 2, 42, 0>>

\* C22: when what has been read is a status byte, the ACK and a response
\* frame, in one read or in two consecutive reads, the ACK is recognised and
\* the buffer restarts right after its last byte, and the call returns the
\* bytes of the response that follow the D5 TFI.
C22_AckThenResponse ==
    \A d \in ResponseData :
        /\ pn532.reads = <<Ready \o ACK_SEQ>> =>
              /\ pn532.ackReceived
              /\ pn532.buffer = <<>>
        /\ pn532.reads \in {<<Ready \o ACK_SEQ \o responseFrame(d)>>,
                            <<Ready \o ACK_SEQ, responseFrame(d)>>,
                            <<Ready \o ACK_SEQ, Ready \o responseFrame(d)>>} =>
              /\ pn532.ackReceived
              /\ pn532.pc = "returned"
              /\ pn532.response = Tail(d)
              /\ pn532.buffer = <<>>

\* the firmware version was returned after an ACK read on its own, and after
\* an ACK read together with the response
C22_Witness ==
    /\ pn532.pc = "returned"
    /\ pn532.ackReceived
    /\ pn532.response = <<3, 50, 1, 6, 7>>
    /\ Len(pn532.reads) = 2


\* the request carries the configured key in its x-api-key header, whatever
\* the case of the header's name
CarriesApiKey(headers) ==
    /\ api.apiKey \notin {Undefined, ""}
    /\ \E i \in DOMAIN headers :
          /\ headers[i].name \in {"x-api-key", "X-API-Key"}
          /\ headers[i].value = api.apiKey

\* C23: a GET /r that read the pending row (o, u) written by POST
\* /api/redirect and writes with no write in between answers 302 with
\* Location u and leaves the row scanned, with a scannedAt and the same o and
\* u; GET /api/session-status on a scanned row reports scanned.
C23_RedirectMarksScanned ==
    [][/\ \A k \in 1..Len(api.reading) :
             (/\ redirectWrites(k)
              /\ api.reading[k] = api.item
              /\ api.item.status = "pending") =>
                 /\ api'.response.statusCode = 302
                 /\ api'.response.Location = api.item.receiptUrl
                 /\ api'.item.pk = "latest"
                 /\ api'.item.status = "scanned"
                 /\ api'.item.scannedAt # Undefined
                 /\ api'.item.orderId = api.item.orderId
                 /\ api'.item.receiptUrl = api.item.receiptUrl
       /\ (handleSessionStatus /\ api.item.status = "scanned") =>
                 /\ api'.response.statusCode = 200
                 /\ api'.response.status = "scanned"
                 /\ api'.response.orderId = api.item.orderId
                 /\ api'.response.receiptUrl = api.item.receiptUrl]_vars

\* session-status has reported as scanned a row that a GET /r marked
C23_Witness ==
    /\ api.item.status = "scanned"
    /\ api.item.receiptUrl \in ReceiptUrls
    /\ api.response.statusCode = 200
    /\ "status" \in DOMAIN api.response
    /\ "receiptUrl" \in DOMAIN api.response
    /\ api.response.status = "scanned"
    /\ api.response.receiptUrl = api.item.receiptUrl

\* this step answers a request on one of the routes
Answers(routes) ==
    /\ api' # api
    /\ api'.time = api.time
    /\ api'.request.route \in routes

\* C24: a POST /api/scan-complete that is accepted leaves the receiptUrl of
\* the row as it was.
C24_ScanCompleteKeepsReceiptUrl ==
    [][(Answers({"POST /api/scan-complete"}) /\ api'.response.statusCode = 200)
           => api'.item.receiptUrl = api.item.receiptUrl]_vars

\* C25: POST /api/redirect and POST /api/scan-complete answer 401 and leave
\* the row alone unless the request carries the configured key, and never
\* answer 401 to a request that carries it.
C25_WritesNeedApiKey ==
    [][Answers({"POST /api/redirect", "POST /api/scan-complete"}) =>
          IF CarriesApiKey(api'.request.headers)
          THEN api'.response.statusCode # 401
          ELSE /\ api'.response.statusCode = 401
               /\ api'.item = api.item]_vars

\* a request was refused after a row had been stored
C25_Witness ==
    /\ api.response.statusCode = 401
    /\ api.item.status = "pending"

\* C39: for an NDEF message of at most 256 bytes the frame of TgInitAsTarget
\* has a len byte equal to the number of TFI and data bytes it carries and
\* an L_gt byte equal to the length of the message.
C39_InitAsTargetFrameWellFormed ==
    (/\ pn532.pc \in {"reading", "returned"}
     /\ pn532.command[1] = CMD_TG_INIT_AS_TARGET
     /\ Len(pn532.command) - 38 <= 256) =>
        /\ pn532.frame[4] = Len(pn532.frame) - 7
        /\ pn532.frame[43] = Len(pn532.command) - 38

\* C40: a GET /r that writes while the row is the pending row of the last
\* POST /api/redirect leaves the orderId and receiptUrl of that row in place.
C40_RedirectKeepsLatestOrder ==
    [][(/\ Answers({"GET /r"})
        /\ api'.response.statusCode = 302
        /\ api.item.status = "pending") =>
           /\ api'.item.orderId = api.item.orderId
           /\ api'.item.receiptUrl = api.item.receiptUrl]_vars

\* C31: a worker whose session shutdown() removed from the map starts no
\* further controller operation when the operation in flight returns: it
\* leaves the worker loop.
C31_WorkerStopsAfterShutdown ==
    [][\A id \in DOMAIN workers :
          (shutdownCalled /\ id \notin DOMAIN sessions /\ id \in DOMAIN workers')
              => workers'[id].pc = workers[id].pc]_vars

\* what has been read after the chunk that held the ACK
RECURSIVE Joined(_)
Joined(chunks) == IF chunks = <<>> THEN <<>> ELSE Head(chunks) \o Joined(Tail(chunks))
ReadAfterAck == Joined(Tail(pn532.reads))

\* C34: sendCommand returns a response only if it has seen the ACK.
C34_NoResponseWithoutAck ==
    (pn532.pc = "returned" /\ pn532.response # Null) => pn532.ackReceived

\* C36: once a malformed frame followed by a complete reply has been read,
\* sendCommand has returned the payload of the reply.
C36_MalformedFrameSkipped ==
    \A m \in Malformed, d \in ResponseData :
        (/\ pn532.reads # <<>>
         /\ pn532.reads[1] = Ready \o ACK_SEQ
         /\ ReadAfterAck \in {Ready \o m \o responseFrame(d),
                              Ready \o m \o Ready \o responseFrame(d)}) =>
            /\ pn532.pc = "returned"
            /\ pn532.response = Tail(d)

\* C37: once garbage with no header in it and a reply have been read, the
\* reply cut anywhere between two reads, sendCommand has returned the
\* payload of the reply.
C37_SplitFrameExtracted ==
    \A g \in Garbage, d \in ResponseData :
        (/\ pn532.reads # <<>>
         /\ pn532.reads[1] = Ready \o ACK_SEQ
         /\ ReadAfterAck = g \o responseFrame(d)) =>
            /\ pn532.pc = "returned"
            /\ pn532.response = Tail(d)
            /\ ~pn532.threw

\* a reply was returned whose header was cut after 00 00 behind eight bytes
\* of garbage
C37_Witness ==
    /\ pn532.pc = "returned"
    /\ Len(pn532.reads) = 3
    /\ pn532.reads[2] = <<128, 128, 128, 128, 128, 128, 128, 128, 0, 0>>
    /\ pn532.response = <<135, 0>>

\* C38: extractResponseFrame raises no error, whatever the buffer holds.
C38_ExtractionNeverThrows == ~pn532.threw

\* C32: when a TgGetData command of waitForTag has returned a response, the
\* next thing waitForTag does is return true.
C32_ResponseEndsWaitWithSuccess ==
    [][(/\ pn532.op = "waitForTag"
        /\ pn532.pc = "returned"
        /\ pn532.response # Null) =>
           /\ pn532'.op = "none"
           /\ pn532'.result = "true"]_vars

\* C33: once the error frame 00 00 FF 01 FF 7F 81 00 has been read, the
\* command has returned, and it has returned no response.
C33_SyntaxErrorFailsAtOnce ==
    (/\ pn532.reads # <<>>
     /\ pn532.reads[Len(pn532.reads)] = Ready \o SyntaxErrorFrame) =>
        /\ pn532.pc = "returned"
        /\ pn532.response = Null

\* C35: when SAMConfiguration has returned no response, initialize returns
\* false and leaves the service closed and not initialized.
C35_InitializeNeedsSAMConfiguration ==
    [][(/\ pn532.op = "configureSAM"
        /\ pn532.pc = "returned"
        /\ pn532.response = Null) =>
           /\ pn532'.result = "false"
           /\ ~pn532'.isInitialized
           /\ ~pn532'.i2cBus]_vars

====
